---- MODULE Spec2Model ----
(***************************************************************************)
(* MCSled: Monte Carlo simulated annealing (src/mcsled/mcsled.py).         *)
(*                                                                         *)
(* Numbers.  Python floats are modelled as rationals <<n, d>> with d > 0.  *)
(* Energies are integers, temperatures are Ti * reduce^k with reduce a     *)
(* dyadic fraction (for these the float product is exact), random draws    *)
(* are rationals in [0, 1).  The one place where float rounding decides    *)
(* the outcome, the cumulative move table of MCSim.__init__, is computed   *)
(* with round-to-nearest-even at a mantissa of MantBits bits.              *)
(***************************************************************************)
EXTENDS Integers, Sequences, FiniteSets, TLC

\* ------------------------------------------------------------------ bounds
MantBits == 5       \* mantissa width of the modelled float (binary64 has 53)
MaxSteps == 2       \* system.get_size() * schedule.ncycles in 1..MaxSteps
MaxStop == 2        \* schedule.nstop in 1..MaxStop
MaxBlocks == 8      \* cap on the block counter (never reached by a schedule)
MaxBlockSteps == 3  \* nsteps of a direct mc_block call
MaxProc == 3        \* largest number of replicates

\* ------------------------------------------------------------- arithmetic
Pow(b, e) == IF e = 0 THEN 1 ELSE LET RECURSIVE P(_)
                                       P(k) == IF k = 0 THEN 1 ELSE b * P(k - 1)
                                   IN P(e)

Abs(x) == IF x < 0 THEN -x ELSE x

RECURSIVE Gcd(_, _)
Gcd(a, b) == IF b = 0 THEN a ELSE Gcd(b, a % b)

\* a rational in lowest terms
Rat(n, d) == IF n = 0 THEN <<0, 1>> ELSE LET g == Gcd(n, d) IN <<n \div g, d \div g>>

RLeq(a, b) == a[1] * b[2] <= b[1] * a[2]
RLt(a, b) == a[1] * b[2] < b[1] * a[2]
RAdd(a, b) == Rat(a[1] * b[2] + b[1] * a[2], a[2] * b[2])
RMul(a, b) == Rat(a[1] * b[1], a[2] * b[2])

\* round-half-even of n / d for n >= 0, d > 0
RoundHalfEven(n, d) ==
    LET m == n \div d
        r == n % d
    IN IF 2 * r > d \/ (2 * r = d /\ m % 2 = 1) THEN m + 1 ELSE m

\* the float nearest to the rational q, 0 <= q < 2: MantBits significant bits
Fl(q) ==
    IF q[1] = 0 THEN <<0, 1>>
    ELSE LET e == CHOOSE k \in 0..(MantBits + 8) :
                      /\ Pow(2, MantBits - 1) * q[2] <= q[1] * Pow(2, k)
                      /\ q[1] * Pow(2, k) < Pow(2, MantBits) * q[2]
         IN Rat(RoundHalfEven(q[1] * Pow(2, e), q[2]), Pow(2, e))

\* float addition and division
FlAdd(a, b) == Fl(RAdd(a, b))
FlDiv(n, d) == Fl(Rat(n, d))


\* ------------------------------------------------------------- math.exp
\* sum of the series 1000 * (1 + x + x^2/2! + ...) for x = xf / 1000
RECURSIVE ExpSeries(_, _, _)
ExpSeries(xf, i, term) ==
    IF term = 0 THEN 0
    ELSE term + ExpSeries(xf, i + 1, (term * xf) \div (1000 * (i + 1)))

\* math.exp(- dE / T) for dE > 0 and a temperature T = <<n, d>>, to three
\* decimals; below 0.001 the value is taken as 0, where the true value is
\* a positive number smaller than every positive draw of the model (and is
\* the float 0.0 once dE / T exceeds 745)
ExpNeg(dE, T) ==
    LET xf == (dE * T[2] * 1000) \div T[1]
    IN IF xf > 7000 THEN <<0, 1>>
       ELSE Rat((1000 * 1000) \div ExpSeries(xf, 0, 1000), 1000)

\* ------------------------------------------------- System and Move objects
\* The System is a point on a line of Len(Landscape) cells; its energy is the
\* height of its cell above the System's base.  Move number i displaces the
\* point by i cells, to the left or to the right as trial_move draws, and
\* stays inside the line.
Landscape == <<4, 3, 2, 1, 0, -1, -2, -1>>

NoState == 0        \* system.saved_state before any save_state

get_energy(sys) == sys.base + Landscape[sys.pos]

\* Every method of the System and of its Moves records its call in sys.log,
\* which mc_step empties when it starts.

\* Move.trial_move: one draw chooses the direction; the displacement dx that
\* keeps the point on the line is remembered by the move
trial_move(sys, imove, x) ==
    LET stride == imove + 1
        t == IF RLt(x, <<1, 2>>) THEN sys.pos - stride ELSE sys.pos + stride
        target == IF t < 1 \/ t > Len(Landscape) THEN sys.pos ELSE t
    IN [sys EXCEPT !.dx = target - sys.pos, !.log = Append(@, "trial_move")]

make_move(sys) ==
    [sys EXCEPT !.pos = sys.pos + sys.dx, !.log = Append(@, "make_move")]

unmake_move(sys) ==
    [sys EXCEPT !.pos = sys.pos - sys.dx, !.log = Append(@, "unmake_move")]

\* System.get_energy_change(move): energy with the move made minus the
\* current energy, computed without making the move
get_energy_change(sys) == Landscape[sys.pos + sys.dx] - Landscape[sys.pos]

\* try: self.system.save_state() except Exception: pass
\* (a System without save_state raises AttributeError, which is swallowed)
try_save_state(sys) ==
    IF sys.hasSave
    THEN [sys EXCEPT !.saved_state = sys.pos, !.log = Append(@, "save_state")]
    ELSE [sys EXCEPT !.log = Append(@, "save_state")]

\* a System object as its constructor leaves it
System(pos, weights, size, use_dE, hasSave) ==
    [pos |-> pos, dx |-> 0, saved_state |-> NoState, weights |-> weights,
     size |-> size, use_dE |-> use_dE, hasSave |-> hasSave, log |-> <<>>,
     base |-> 0]

\* ----------------------------------------------------- AnnealingSchedule
AnnealingSchedule(Ti, Tf, reduce, ncycles, nstop) ==
    [Ti |-> Ti, Tf |-> Tf, reduce |-> reduce, ncycles |-> ncycles, nstop |-> nstop]

\* ------------------------------------------------------------------ MCSim
\* self.lowE = 1.0 / self.tiny = 1.0e16, above every energy of the Landscape;
\* it stands in the model as a value above them all
InitLowE == 1000

None == -1          \* Python's None as the value of choose_move

RECURSIVE SumSeq(_)
SumSeq(w) == IF w = <<>> THEN 0 ELSE w[1] + SumSeq(Tail(w))

\* sum(probabilities[0:i + 1]): a left-to-right float sum that starts at 0
RECURSIVE FlSum(_, _)
FlSum(p, i) == IF i = 0 THEN <<0, 1>> ELSE FlAdd(FlSum(p, i - 1), p[i])

\* the cumulative table of __init__ (mysum > 0)
cummoveprobabilities(weights) ==
    LET mysum == SumSeq(weights)
        probabilities == [i \in 1..Len(weights) |-> FlDiv(weights[i], mysum)]
    IN [i \in 1..Len(weights) |-> FlSum(probabilities, i)]

\* MCSim.__init__
MCSim(system, schedule) ==
    [lowE |-> InitLowE,
     Ti |-> schedule.Ti, Tf |-> schedule.Tf, reduce |-> schedule.reduce,
     ncycles |-> schedule.ncycles, nstop |-> schedule.nstop,
     system |-> system,
     size |-> system.size,
     cum |-> cummoveprobabilities(system.weights),
     Thistory |-> <<>>, Eblockhistory |-> <<>>]

\* MCSim.choose_move: the loop over the table, 0-based result, None when the
\* loop ends without returning
RECURSIVE choose_scan(_, _, _)
choose_scan(cum, x, i) ==
    IF i > Len(cum) THEN None
    ELSE IF RLeq(x, cum[i]) THEN i - 1
    ELSE choose_scan(cum, x, i + 1)

choose_move(cum, x) == choose_scan(cum, x, 1)

\* a decide that compares the draw with < instead of <=
decide_less(dE, T, x) ==
    IF dE <= 0 THEN [accept |-> TRUE, ndraws |-> 0]
    ELSE [accept |-> RLt(x, ExpNeg(dE, T)), ndraws |-> 1]

\* MCSim.decide: the decision and the number of draws it consumed
decide(dE, T, x) ==
    IF dE <= 0 THEN [accept |-> TRUE, ndraws |-> 0]
    ELSE [accept |-> RLeq(x, ExpNeg(dE, T)), ndraws |-> 1]

\* an evaluation that makes the move twice before it recomputes the energy
step_evaluate_twice(sys1, Eold) ==
    IF sys1.use_dE
    THEN [system |-> sys1, Enew |-> Eold, dE |-> get_energy_change(sys1)]
    ELSE LET sys2 == make_move(sys1)
             sys3 == [sys2 EXCEPT !.log = Append(@, "make_move")]
         IN [system |-> sys3, Enew |-> get_energy(sys3),
             dE |-> get_energy(sys3) - Eold]

\* an evaluation whose recomputed difference has the wrong sign
step_evaluate_sign(sys1, Eold) ==
    IF sys1.use_dE
    THEN [system |-> sys1, Enew |-> Eold, dE |-> get_energy_change(sys1)]
    ELSE LET sys2 == make_move(sys1)
         IN [system |-> sys2, Enew |-> get_energy(sys2),
             dE |-> Eold - get_energy(sys2)]

\* mc_step, lines 148-153: the energy change of the proposed move, by the
\* System's delta function or by making the move and recomputing the energy
step_evaluate(sys1, Eold) ==
    IF sys1.use_dE
    THEN [system |-> sys1, Enew |-> Eold, dE |-> get_energy_change(sys1)]
    ELSE LET sys2 == make_move(sys1)
         IN [system |-> sys2, Enew |-> get_energy(sys2),
             dE |-> get_energy(sys2) - Eold]

\* an accept that adds dE but never makes the move
step_accept_nomake(ev) ==
    IF ev.system.use_dE
    THEN [system |-> ev.system, Enew |-> ev.Enew + ev.dE]
    ELSE [system |-> ev.system, Enew |-> ev.Enew]

\* an accept that makes the move but keeps the old energy
step_accept_stale(ev) ==
    IF ev.system.use_dE
    THEN [system |-> make_move(ev.system), Enew |-> ev.Enew]
    ELSE [system |-> ev.system, Enew |-> ev.Enew]

\* mc_step, lines 156-162: the move is accepted
step_accept(ev) ==
    IF ev.system.use_dE
    THEN [system |-> make_move(ev.system), Enew |-> ev.Enew + ev.dE]
    ELSE [system |-> ev.system, Enew |-> ev.Enew]

\* a reject that restores the energy but not the configuration
step_reject_noundo(ev, Eold) ==
    IF ev.system.use_dE
    THEN [system |-> ev.system, Enew |-> ev.Enew]
    ELSE [system |-> ev.system, Enew |-> Eold]

\* a reject that undoes the move but returns the recomputed energy
step_reject_keepnew(ev, Eold) ==
    IF ev.system.use_dE
    THEN [system |-> ev.system, Enew |-> ev.Enew]
    ELSE [system |-> unmake_move(ev.system), Enew |-> ev.Enew]

\* mc_step, lines 163-169: the move is rejected
step_reject(ev, Eold) ==
    IF ev.system.use_dE
    THEN [system |-> ev.system, Enew |-> ev.Enew]
    ELSE [system |-> unmake_move(ev.system), Enew |-> Eold]

\* MCSim.mc_step: the step's result as [system, Enew, raised] plus what an
\* observer of the step sees: the move, dE, the decision, the draws consumed
\* and the configuration at the moment decide is called.  xs are the next
\* three draws of the random stream; the step consumes a prefix of them.
mc_step(m, T, Enew, xs) ==
    LET Eold == Enew
        imove == choose_move(m.cum, xs[1])
        sys0 == [m.system EXCEPT !.log = <<>>]
    IN IF imove = None
       THEN \* self.moves[None] raises TypeError
            [system |-> sys0, Enew |-> Enew, raised |-> TRUE, imove |-> imove,
             dE |-> 0, accept |-> FALSE, ndraws |-> 1, posAtDecide |-> sys0.pos]
       ELSE LET ev == step_evaluate(trial_move(sys0, imove, xs[2]), Eold)
                decision == decide(ev.dE, T, xs[3])
                out == IF decision.accept THEN step_accept(ev)
                       ELSE step_reject(ev, Eold)
            IN [system |-> out.system, Enew |-> out.Enew, raised |-> FALSE,
                imove |-> imove, dE |-> ev.dE, accept |-> decision.accept,
                ndraws |-> 2 + decision.ndraws, posAtDecide |-> ev.system.pos]

\* what is known of the last step before any step was made
NoStep ==
    [imove |-> None, dE |-> 0, accept |-> FALSE, ndraws |-> 0, posAtDecide |-> 0]

\* the loop of check_early_stop over i = nlen - 1, ..., nlen - nstop (0-based,
\* a negative index counts from the end, an index outside the list raises)
RECURSIVE stop_scan(_, _, _, _, _)
stop_scan(hist, E, threshold, i, last) ==
    IF i < last THEN "True"
    ELSE LET k == IF i >= 0 THEN i + 1 ELSE Len(hist) + i + 1
         IN IF k < 1 \/ k > Len(hist) THEN "IndexError"
            ELSE LET rest == stop_scan(hist, E, threshold, i - 1, last)
                 IN IF rest = "IndexError" THEN rest
                    ELSE IF Abs(E - hist[k]) <= threshold THEN rest ELSE "False"

\* check_early_stop deciding one block early: iblock >= nstop
check_early_stop_ge(m, iblock, T, nstop, threshold) ==
    LET Th == Append(m.Thistory, T)
        Eh == Append(m.Eblockhistory, m.lowE)
        nlen == Len(Eh)
    IN [Thistory |-> Th, Eblockhistory |-> Eh,
        stopanneal |-> IF iblock >= nstop
                       THEN stop_scan(Eh, Eh[nlen], threshold, nlen - 1, nlen - nstop)
                       ELSE "None"]

\* check_early_stop comparing the window with the oldest entry of the
\* history instead of the latest
check_early_stop_first(m, iblock, T, nstop, threshold) ==
    LET Th == Append(m.Thistory, T)
        Eh == Append(m.Eblockhistory, m.lowE)
        nlen == Len(Eh)
    IN [Thistory |-> Th, Eblockhistory |-> Eh,
        stopanneal |-> IF iblock > nstop
                       THEN stop_scan(Eh, Eh[1], threshold, nlen - 1, nlen - nstop)
                       ELSE "None"]

\* MCSim.check_early_stop: the histories after the appends and the value
\* returned ("None" when iblock <= nstop)
check_early_stop(m, iblock, T, nstop, threshold) ==
    LET Th == Append(m.Thistory, T)
        Eh == Append(m.Eblockhistory, m.lowE)
        nlen == Len(Eh)
    IN [Thistory |-> Th, Eblockhistory |-> Eh,
        stopanneal |-> IF iblock > nstop
                       THEN stop_scan(Eh, Eh[nlen], threshold, nlen - 1, nlen - nstop)
                       ELSE "None"]

\* ------------------------------------------------------------------ state
\* sim:  an MCSim object with its System, and the frame of its anneal call
\*       (pc, T, Enew, iblock, istep, nsteps, threshold) plus what was observed
\*       of the run (step: the last mc_step; Tblock: the temperature each block
\*       was run at; how: why the loop was left; nmcsteps: the number of
\*       mc_step calls that returned)
\* twin: a second MCSim on a copy of the same System with the other energy
\*       strategy, fed the same draws (SpecTwin only)
\* unit: the last direct call of decide, choose_move or check_early_stop
\*       with its arguments and result (SpecUnit only)
\* reps: a Replicates object, the tasks of its run and what run has
\*       collected (SpecRep only)
VARIABLES sim, twin, unit, reps

vars == <<sim, twin, unit, reps>>

\* the locals of anneal before it is called
Frame ==
    [pc |-> "ready", T |-> <<0, 1>>, Enew |-> 0, iblock |-> 0, istep |-> 0,
     nsteps |-> 0, threshold |-> 0, stopanneal |-> "None", step |-> NoStep,
     Tblock |-> <<>>, how |-> "running", nmcsteps |-> 0]

NewSim(system, schedule) == MCSim(system, schedule) @@ Frame

\* an update that is made only when the System can take the snapshot
low_update_needs_save(m, Enew, system) ==
    IF Enew < m.lowE /\ system.hasSave
    THEN [lowE |-> Enew, system |-> try_save_state(system)]
    ELSE [lowE |-> m.lowE, system |-> system]

\* an update that also fires on an equal energy
low_update_le(m, Enew, system) ==
    IF Enew <= m.lowE
    THEN [lowE |-> Enew, system |-> try_save_state(system)]
    ELSE [lowE |-> m.lowE, system |-> system]

\* mc_block, lines 186-191: the best energy and its snapshot after a step
low_update(m, Enew, system) ==
    IF Enew < m.lowE
    THEN [lowE |-> Enew, system |-> try_save_state(system)]
    ELSE [lowE |-> m.lowE, system |-> system]

\* one pass of mc_block's loop body: a step, then the lowE update
mc_block_step(s, xs) ==
    LET r == mc_step(s, s.T, s.Enew, xs)
        obs == [imove |-> r.imove, dE |-> r.dE, accept |-> r.accept,
                ndraws |-> r.ndraws, posAtDecide |-> r.posAtDecide]
    IN IF r.raised
       THEN [s EXCEPT !.pc = "raised", !.system = r.system, !.step = obs]
       ELSE LET low == low_update(s, r.Enew, r.system)
            IN [s EXCEPT !.Enew = r.Enew,
                         !.lowE = low.lowE,
                         !.system = low.system,
                         !.step = obs,
                         !.istep = @ + 1,
                         !.nmcsteps = @ + 1,
                         !.pc = IF s.istep + 1 = s.nsteps THEN "cool" ELSE "block"]

\* a loop test that leaves out the block at T = Tf
while_test_strict(T, Tf) == RLt(<<Tf, 1>>, T)

\* the test of anneal's while loop: T >= Tfinal
while_test(T, Tf) == RLeq(<<Tf, 1>>, T)

\* the entry into the next block, or the end of the loop

loop_head(s) ==
    IF while_test(s.T, s.Tf) /\ s.iblock < MaxBlocks
    THEN [s EXCEPT !.iblock = @ + 1, !.istep = 0,
                   !.Tblock = Append(@, s.T),
                   !.pc = IF s.nsteps > 0 THEN "block" ELSE "cool"]
    ELSE [s EXCEPT !.pc = "done", !.how = "schedule"]

\* a cooling step that forgets the factor
cool_noreduce(T, reduce) == T

\* T = T * reduce
cool(T, reduce) == RMul(T, reduce)

\* an anneal whose blocks have ncycles steps whatever the size
anneal_start_nosize(s, threshold) ==
    loop_head([s EXCEPT !.threshold = threshold,
                        !.Enew = get_energy(s.system),
                        !.system = try_save_state([s.system EXCEPT !.log = <<>>]),
                        !.nsteps = s.ncycles,
                        !.T = <<s.Ti, 1>>])

\* anneal up to the first test of the while loop
anneal_start(s, threshold) ==
    loop_head([s EXCEPT !.threshold = threshold,
                        !.Enew = get_energy(s.system),
                        !.system = try_save_state([s.system EXCEPT !.log = <<>>]),
                        !.nsteps = s.size * s.ncycles,
                        !.T = <<s.Ti, 1>>])

\* anneal after mc_block returns: cool, check_early_stop, break or loop
anneal_cool(s) ==
    LET T2 == cool(s.T, s.reduce)
        c == check_early_stop(s, s.iblock, T2, s.nstop, s.threshold)
        s2 == [s EXCEPT !.T = T2, !.Thistory = c.Thistory,
                        !.Eblockhistory = c.Eblockhistory,
                        !.stopanneal = c.stopanneal]
    IN IF c.stopanneal = "IndexError" THEN [s2 EXCEPT !.pc = "raised"]
       ELSE IF c.stopanneal = "True" THEN [s2 EXCEPT !.pc = "done", !.how = "early"]
       ELSE loop_head(s2)

\* an anneal that hands back the System restored to its snapshot
anneal_result_best(s) ==
    IF s.system.hasSave /\ s.system.saved_state # NoState
    THEN [s.system EXCEPT !.pos = s.system.saved_state]
    ELSE s.system

\* anneal, line 238: return self.system
anneal_result(s) == s.system

\* ----------------------------------------------------------------- inputs
MaxDraw == <<Pow(2, MantBits) - 1, Pow(2, MantBits)>>

\* values of random.random(): 0, the largest float below 1, and one between
Draws == {<<0, 1>>, <<3, 10>>, MaxDraw}

Reduces == {<<1, 2>>, <<3, 4>>}

InitialTemperatures == {1, 2}

FinalTemperatures == {1, 2}

Thresholds == {0, 1}

Schedules ==
    {AnnealingSchedule(Ti, Tf, r, nc, ns) :
        Ti \in InitialTemperatures, Tf \in FinalTemperatures, r \in Reduces,
        nc \in 1..MaxSteps, ns \in 1..MaxStop}

StartPositions == {4}

Weights == {<<1, 1>>}

Systems ==
    {System(pos, w, size, d, h) :
        pos \in StartPositions, w \in Weights, size \in 1..MaxSteps,
        d \in BOOLEAN, h \in BOOLEAN}

\* no twin engine
NoTwin == [pc |-> "unused"]

\* no Replicates object
NoReps == [pc |-> "unused"]

\* no direct call made yet
NoUnit ==
    [op |-> "none", dE |-> 0, T |-> <<1, 1>>, x |-> <<0, 1>>, weights |-> <<>>,
     accept |-> FALSE, ndraws |-> 0, imove |-> None, Enew |-> 0, lowE |-> 0]

\* ---------------------------------------------------------- anneal (Spec)
Init ==
    /\ sim \in {NewSim(sys, sch) : sys \in Systems, sch \in Schedules}
    /\ sim.size * sim.ncycles <= MaxSteps
    /\ twin = NoTwin
    /\ unit = NoUnit
    /\ reps = NoReps

AnnealStart ==
    /\ sim.pc = "ready"
    /\ \E threshold \in Thresholds : sim' = anneal_start(sim, threshold)
    /\ UNCHANGED <<twin, unit, reps>>

McBlockStep ==
    /\ sim.pc = "block"
    /\ \E x1 \in Draws, x2 \in Draws, x3 \in Draws :
          sim' = mc_block_step(sim, <<x1, x2, x3>>)
    /\ UNCHANGED <<twin, unit, reps>>

AnnealCool ==
    /\ sim.pc = "cool"
    /\ sim' = anneal_cool(sim)
    /\ UNCHANGED <<twin, unit, reps>>

Next == AnnealStart \/ McBlockStep \/ AnnealCool

Spec == Init /\ [][Next]_vars

\* ------------------------------------- two energy strategies (SpecTwin)
\* sim recomputes the energy, twin uses the System's delta function; both
\* start from the same configuration and schedule and read the same draws
anneal_next(s, threshold, xs) ==
    CASE s.pc = "ready" -> anneal_start(s, threshold)
      [] s.pc = "block" -> mc_block_step(s, xs)
      [] s.pc = "cool" -> anneal_cool(s)
      [] OTHER -> s

InitTwin ==
    /\ sim \in {NewSim(sys, sch) : sys \in Systems, sch \in Schedules}
    /\ sim.size * sim.ncycles <= MaxSteps
    /\ ~sim.system.use_dE
    /\ twin = [sim EXCEPT !.system.use_dE = TRUE]
    /\ unit = NoUnit
    /\ reps = NoReps

TwinStart ==
    /\ sim.pc = "ready"
    /\ \E threshold \in Thresholds :
          /\ sim' = anneal_start(sim, threshold)
          /\ twin' = anneal_next(twin, threshold, <<>>)
    /\ UNCHANGED <<unit, reps>>

TwinStep ==
    /\ sim.pc = "block"
    /\ \E x1 \in Draws, x2 \in Draws, x3 \in Draws :
          /\ sim' = mc_block_step(sim, <<x1, x2, x3>>)
          /\ twin' = anneal_next(twin, sim.threshold, <<x1, x2, x3>>)
    /\ UNCHANGED <<unit, reps>>

TwinCool ==
    /\ sim.pc = "cool"
    /\ sim' = anneal_cool(sim)
    /\ twin' = anneal_next(twin, sim.threshold, <<>>)
    /\ UNCHANGED <<unit, reps>>

NextTwin == TwinStart \/ TwinStep \/ TwinCool

SpecTwin == InitTwin /\ [][NextTwin]_vars

\* ------------------------------- with and without save_state (SpecSave)
\* sim runs on a System that has save_state, twin on the same System without
\* it; both read the same draws
InitSave ==
    /\ sim \in {NewSim(sys, sch) : sys \in Systems, sch \in Schedules}
    /\ sim.size * sim.ncycles <= MaxSteps
    /\ sim.system.hasSave
    /\ twin = [sim EXCEPT !.system.hasSave = FALSE]
    /\ unit = NoUnit
    /\ reps = NoReps

NextSave == TwinStart \/ TwinStep \/ TwinCool

SpecSave == InitSave /\ [][NextSave]_vars

\* ------------------------------------ a run and its record (SpecTrack)
\* anneal on a System that has save_state; unit keeps a record of the run
\* that the engine does not keep: the starting energy E0 (line 214), the
\* least of E0 and the energies returned by the steps so far, and whether a
\* move with dE > 0 (uphill) or with dE < 0 (downhill) was accepted
Min(a, b) == IF a < b THEN a ELSE b

InitTrack ==
    /\ sim \in {NewSim(sys, sch) : sys \in Systems, sch \in Schedules}
    /\ sim.size * sim.ncycles <= MaxSteps
    /\ sim.system.hasSave
    /\ twin = NoTwin
    /\ unit = NoUnit
    /\ reps = NoReps

TrackStart ==
    /\ sim.pc = "ready"
    /\ \E threshold \in Thresholds : sim' = anneal_start(sim, threshold)
    /\ unit' = [op |-> "anneal", E0 |-> get_energy(sim.system),
                minE |-> get_energy(sim.system),
                uphill |-> FALSE, downhill |-> FALSE]
    /\ UNCHANGED <<twin, reps>>

TrackStep ==
    /\ sim.pc = "block"
    /\ \E x1 \in Draws, x2 \in Draws, x3 \in Draws :
          sim' = mc_block_step(sim, <<x1, x2, x3>>)
    /\ unit' = IF sim'.pc = "raised" THEN unit
               ELSE [unit EXCEPT
                        !.minE = Min(@, sim'.Enew),
                        !.uphill = @ \/ (sim'.step.accept /\ sim'.step.dE > 0),
                        !.downhill = @ \/ (sim'.step.accept /\ sim'.step.dE < 0)]
    /\ UNCHANGED <<twin, reps>>

TrackCool ==
    /\ sim.pc = "cool"
    /\ sim' = anneal_cool(sim)
    /\ UNCHANGED <<twin, unit, reps>>

NextTrack == TrackStart \/ TrackStep \/ TrackCool

SpecTrack == InitTrack /\ [][NextTrack]_vars

\* ------------------------------------- a direct call of mc_block (SpecBlock)
\* mc_block(nsteps, T, Enew) called on an engine whose lowE the caller has
\* set, on a System with one move; unit keeps the arguments of the call
BlockLowEs == {InitLowE, 1, 0, -2}

InitBlock ==
    /\ \E d \in BOOLEAN, h \in BOOLEAN, low \in BlockLowEs, Ti \in InitialTemperatures :
          LET sys == System(4, <<1>>, 1, d, h)
              m == NewSim(sys, AnnealingSchedule(Ti, 1, <<1, 2>>, 1, 1))
          IN /\ sim = [m EXCEPT !.lowE = low, !.pc = "block", !.T = <<Ti, 1>>,
                                !.Enew = get_energy(sys),
                                !.nsteps = MaxBlockSteps]
             /\ unit = [NoUnit EXCEPT !.op = "mc_block", !.T = <<Ti, 1>>,
                                      !.Enew = get_energy(sys), !.lowE = low]
    /\ twin = NoTwin
    /\ reps = NoReps

NextBlock == McBlockStep

SpecBlock == InitBlock /\ [][NextBlock]_vars

\* ------------------------------------ construction of the engine (SpecNew)
\* MCSim(system, schedule) called on Systems that keep or break the contract
\* of the constructor: an empty move list, weights that are all zero, a size
\* that is not positive.  Before the call sim holds the arguments.

\* a constructor that leaves the table empty when the weights sum to zero
MCSim__init__nosum(system, schedule) ==
    IF SumSeq(system.weights) = 0
    THEN [NewSim([system EXCEPT !.weights = <<>>], schedule)
             EXCEPT !.system = system]
    ELSE NewSim(system, schedule)

\* MCSim.__init__ with its failure: line 116 divides by mysum for every move,
\* which raises ZeroDivisionError when there is a move and mysum is zero
MCSim__init__(system, schedule) ==
    IF Len(system.weights) > 0 /\ SumSeq(system.weights) = 0
    THEN [pc |-> "failed", error |-> "ZeroDivisionError", system |-> system]
    ELSE NewSim(system, schedule)

NewWeights == {<<>>, <<0>>, <<0, 0>>, <<1>>, <<1, 1>>}

NewSizes == (-1)..MaxSteps

NewSystems ==
    {System(pos, w, size, d, TRUE) :
        pos \in StartPositions, w \in NewWeights, size \in NewSizes,
        d \in BOOLEAN}

InitNew ==
    /\ \E sys \in NewSystems, sch \in Schedules :
          /\ sys.size * sch.ncycles <= MaxSteps
          /\ sim = [pc |-> "new", system |-> sys, schedule |-> sch]
    /\ twin = NoTwin
    /\ unit = NoUnit
    /\ reps = NoReps

Construct ==
    /\ sim.pc = "new"
    /\ sim' = MCSim__init__(sim.system, sim.schedule)
    /\ UNCHANGED <<twin, unit, reps>>

NextNew == Construct \/ AnnealStart \/ McBlockStep \/ AnnealCool

SpecNew == InitNew /\ [][NextNew]_vars

\* ------------------------------------------------- Replicates (SpecRep)
\* Replicates.run: np engines are built with seeds drawn from the master
\* stream and their anneal_parallel is submitted to a pool of np workers;
\* run then calls get() on the results in the order of submission.  What a
\* replicate's anneal does is abstracted to its outcome: it returns its
\* System or it raises (reps.fails holds the replicates whose anneal raises).
\* Replicate number i of the code is position i + 1 of the sequences here.

\* int(random.random() * 1000000) for a draw x = <<n, d>>: the integer part
\* of n * 1000000 / d, computed without the large product when d is a
\* multiple of 1000000
ranseed_of(x) ==
    LET k == x[2] \div 1000000
    IN IF k * 1000000 = x[2] THEN x[1] \div k ELSE (x[1] * 1000000) \div x[2]

\* values of the master stream: two different draws that give the same seed,
\* and one that gives another
MasterDraws == {<<1, 4>>, <<2500003, 10000000>>, <<3, 4>>}

\* a Replicates object with self.np = np, before run
Replicates(np, fails) ==
    [pc |-> "idle", np |-> np, fails |-> fails, ranseeds |-> <<>>,
     task |-> [i \in 1..np |-> "none"], value |-> [i \in 1..np |-> "none"],
     output |-> <<>>, nget |-> 0, error |-> "none", order |-> <<>>]

\* run, lines 79-89: the seeds are drawn and the np tasks are submitted
run_submit(r, draws) ==
    [r EXCEPT !.pc = "collect",
              !.ranseeds = [i \in 1..r.np |-> ranseed_of(draws[i])],
              !.task = [i \in 1..r.np |-> "queued"]]

\* a pool worker takes task i
worker_start(r, i) == [r EXCEPT !.task[i] = "running"]

\* anneal_parallel of replicate i ends in its worker: it returns the
\* replicate's System or raises
worker_finish(r, i) ==
    IF i \in r.fails
    THEN [r EXCEPT !.task[i] = "raised",
                   !.value[i] = [error |-> "Exception", replicate |-> i - 1],
                   !.order = Append(@, i)]
    ELSE [r EXCEPT !.task[i] = "ok",
                   !.value[i] = [system |-> "finished", replicate |-> i - 1,
                                 ranseed |-> r.ranseeds[i]],
                   !.order = Append(@, i)]

\* a collection that takes the results in the order the workers finished
run_get_finished(r) ==
    LET i == r.order[r.nget + 1]
    IN IF r.task[i] = "raised"
       THEN [r EXCEPT !.pc = "raised", !.error = r.value[i]]
       ELSE [r EXCEPT !.output = Append(@, r.value[i]),
                      !.nget = @ + 1,
                      !.pc = IF r.nget + 1 = r.np THEN "returned" ELSE "collect"]

\* a collection that leaves out the replicates that raised
run_get_skip(r) ==
    LET i == r.nget + 1
        out == IF r.task[i] = "raised" THEN r.output
               ELSE Append(r.output, r.value[i])
    IN [r EXCEPT !.output = out,
                 !.nget = @ + 1,
                 !.pc = IF r.nget + 1 = r.np THEN "returned" ELSE "collect"]

\* run, line 90: the next p.get() of [p.get() for p in results], called once
\* its task has ended; get() returns the task's value or re-raises what the
\* task raised, which ends run
run_get(r) ==
    LET i == r.nget + 1
    IN IF r.task[i] = "raised"
       THEN [r EXCEPT !.pc = "raised", !.error = r.value[i]]
       ELSE [r EXCEPT !.output = Append(@, r.value[i]),
                      !.nget = @ + 1,
                      !.pc = IF r.nget + 1 = r.np THEN "returned" ELSE "collect"]

\* run, line 91: what the caller of run receives; nothing when run raised
run_result(r) == IF r.pc = "returned" THEN r.output ELSE <<>>

InitRep ==
    /\ \E np \in 1..MaxProc : \E fails \in SUBSET (1..np) :
          reps = Replicates(np, fails)
    /\ sim = NewSim(System(4, <<1, 1>>, 1, FALSE, TRUE),
                    AnnealingSchedule(2, 1, <<1, 2>>, 1, 1))
    /\ twin = NoTwin
    /\ unit = NoUnit

RunSubmit ==
    /\ reps.pc = "idle"
    /\ \E draws \in [1..reps.np -> MasterDraws] : reps' = run_submit(reps, draws)
    /\ UNCHANGED <<sim, twin, unit>>

WorkerStart ==
    /\ \E i \in 1..reps.np :
          /\ reps.task[i] = "queued"
          /\ reps' = worker_start(reps, i)
    /\ UNCHANGED <<sim, twin, unit>>

WorkerFinish ==
    /\ \E i \in 1..reps.np :
          /\ reps.task[i] = "running"
          /\ reps' = worker_finish(reps, i)
    /\ UNCHANGED <<sim, twin, unit>>

RunGet ==
    /\ reps.pc = "collect"
    /\ reps.task[reps.nget + 1] \in {"ok", "raised"}
    /\ reps' = run_get(reps)
    /\ UNCHANGED <<sim, twin, unit>>

NextRep == RunSubmit \/ WorkerStart \/ WorkerFinish \/ RunGet

SpecRep == InitRep /\ [][NextRep]_vars

\* the workers and the collecting loop of run keep running
SpecRepFair == SpecRep /\ WF_vars(NextRep)

\* --------------------------------- two replicates at work (SpecIso)
\* Replicates.run with np = 2, with the objects and the random streams of the
\* processes.  sim and twin are the engines of replicates 0 and 1.  unit holds
\* what the processes hold: heap[0] is the System template in the parent,
\* heap[1] and heap[2] the System objects in the workers; owner[i] is the
\* object replicate i's engine works on; stream[p] is the global random
\* stream of process p (0 the parent, 1 and 2 the pool's workers) as
\* [seeded, seed, drawn]; proc[i] is the worker that runs replicate i;
\* before is the template and schedule as Replicates received them.

\* engines that all work on the caller's System object
task_system_shared(i) == 0

\* the System of replicate i's engine: apply_async pickles the bound method
\* anneal_parallel with its MCSim and System, the worker works on its copy
task_system(i) == i

\* the stream of a pool worker: Pool forks the workers at line 79 and the
\* random module re-seeds itself from the operating system in a forked child
worker_stream == [seeded |-> "os", seed |-> 0, drawn |-> 0]

\* random.seed(ranseed) in MCSim.__init__, lines 108-109: it acts on the
\* global stream of the process that constructs the engine, the parent
seeded_stream(ranseed) == [seeded |-> "ranseed", seed |-> ranseed, drawn |-> 0]

\* lines 82-89 seen from the processes: the engines are built in the parent,
\* each construction re-seeds the parent's stream, the tasks get their copies
iso_submit(u, ranseeds) ==
    [u EXCEPT !.owner = [i \in 1..2 |-> task_system(i)],
              !.heap = [id \in 0..2 |->
                           IF id = 0 \/ \E i \in 1..2 : task_system(i) = id
                           THEN u.heap[0] ELSE "none"],
              !.stream = [p \in 0..2 |->
                             IF p = 0 THEN seeded_stream(ranseeds[2])
                             ELSE worker_stream]]

\* what a step of replicate i leaves behind: the engine e1 after the step,
\* its System stored in the replicate's object, the draws taken from the
\* stream of the replicate's worker
iso_store(e1, inblock, i, u) ==
    [engine |-> e1,
     unit |-> [u EXCEPT !.heap[u.owner[i]] = e1.system,
                        !.stream[u.proc[i]].drawn =
                            @ + (IF inblock THEN e1.step.ndraws ELSE 0)]]

\* one step of anneal of replicate i in its worker, on its System object and
\* with the draws of its worker's stream; anneal_parallel calls anneal with
\* the default threshold
iso_step(e, i, u, xs) ==
    iso_store(anneal_next([e EXCEPT !.system = u.heap[u.owner[i]]], 0, xs),
              e.pc = "block", i, u)

InitIso ==
    /\ \E d \in BOOLEAN :
          LET template == System(4, <<1, 1>>, 1, d, TRUE)
              schedule == AnnealingSchedule(1, 1, <<1, 2>>, 1, 1)
          IN unit = [op |-> "Replicates", schedule |-> schedule,
                     heap |-> [id \in 0..2 |-> IF id = 0 THEN template ELSE "none"],
                     owner |-> <<0, 0>>, proc |-> <<0, 0>>,
                     stream |-> [p \in 0..2 |-> worker_stream],
                     before |-> [template |-> template, schedule |-> schedule]]
    /\ reps = Replicates(2, {})
    /\ sim = NoTwin
    /\ twin = NoTwin

IsoSubmit ==
    /\ reps.pc = "idle"
    /\ \E draws \in [1..2 -> MasterDraws] :
          LET r == run_submit(reps, draws)
          IN reps' = r /\ unit' = iso_submit(unit, r.ranseeds)
    /\ sim' = NewSim(unit.heap[0], unit.schedule)
    /\ twin' = NewSim(unit.heap[0], unit.schedule)

IsoStart ==
    /\ \E i \in 1..2, w \in 1..2 :
          /\ reps.task[i] = "queued"
          /\ \A j \in 1..2 : ~(reps.task[j] = "running" /\ unit.proc[j] = w)
          /\ reps' = worker_start(reps, i)
          /\ unit' = [unit EXCEPT !.proc[i] = w]
    /\ UNCHANGED <<sim, twin>>

IsoStep1 ==
    /\ reps.task[1] = "running"
    /\ sim.pc \in {"ready", "block", "cool"}
    /\ \E x1 \in Draws, x2 \in Draws, x3 \in Draws :
          \E r \in {iso_step(sim, 1, unit, <<x1, x2, x3>>)} :
              sim' = r.engine /\ unit' = r.unit
    /\ UNCHANGED <<twin, reps>>

IsoStep2 ==
    /\ reps.task[2] = "running"
    /\ twin.pc \in {"ready", "block", "cool"}
    /\ \E x1 \in Draws, x2 \in Draws, x3 \in Draws :
          \E r \in {iso_step(twin, 2, unit, <<x1, x2, x3>>)} :
              twin' = r.engine /\ unit' = r.unit
    /\ UNCHANGED <<sim, reps>>

IsoFinish ==
    /\ \E i \in 1..2 :
          /\ reps.task[i] = "running"
          /\ (IF i = 1 THEN sim ELSE twin).pc = "done"
          /\ reps' = worker_finish(reps, i)
    /\ UNCHANGED <<sim, twin, unit>>

IsoGet ==
    /\ reps.pc = "collect"
    /\ reps.task[reps.nget + 1] \in {"ok", "raised"}
    /\ reps' = run_get(reps)
    /\ UNCHANGED <<sim, twin, unit>>

NextIso == IsoSubmit \/ IsoStart \/ IsoStep1 \/ IsoStep2 \/ IsoFinish \/ IsoGet

SpecIso == InitIso /\ [][NextIso]_vars

\* ------------------------------------ Systems of high energy (SpecHigh)
\* anneal on Systems whose energies are those of the Landscape raised by a
\* base, a base that puts every energy of the System above the initial lowE
\* of the engine included
HighEnergy == InitLowE + 10

InitHigh ==
    /\ sim \in {NewSim([sys EXCEPT !.base = b], sch) :
                   sys \in Systems, sch \in Schedules, b \in {0, HighEnergy}}
    /\ sim.size * sim.ncycles <= MaxSteps
    /\ sim.system.hasSave
    /\ twin = NoTwin
    /\ unit = NoUnit
    /\ reps = NoReps

NextHigh == AnnealStart \/ McBlockStep \/ AnnealCool

SpecHigh == InitHigh /\ [][NextHigh]_vars

\* ------------------------------------ a bounded history (SpecTrunc)
\* sim is the engine of the code, which keeps every entry of Thistory and
\* Eblockhistory; twin is the same engine keeping only the last nstop + 1
\* entries of both after each append.  Both read the same draws.

\* the last n entries of a list
last_entries(hist, n) ==
    IF Len(hist) <= n THEN hist
    ELSE SubSeq(hist, Len(hist) - n + 1, Len(hist))

\* anneal after mc_block returns, on the bounded history: appending to the
\* last nstop entries is appending and then keeping the last nstop + 1, the
\* list check_early_stop decides on at lines 248-260
anneal_cool_truncated(s) ==
    anneal_cool([s EXCEPT !.Thistory = last_entries(@, s.nstop),
                          !.Eblockhistory = last_entries(@, s.nstop)])

\* schedules of two and of four blocks of one step
TruncSchedules ==
    {AnnealingSchedule(Ti, 1, <<1, 2>>, 1, ns) : Ti \in {2, 8}, ns \in 1..MaxStop}

\* thresholds of the early stop: the default, a wider one, and a negative one
TruncThresholds == {0, 1, -1}

InitTrunc ==
    /\ sim \in {NewSim(System(4, <<1, 1>>, 1, d, TRUE), sch) :
                   d \in BOOLEAN, sch \in TruncSchedules}
    /\ twin = sim
    /\ unit = NoUnit
    /\ reps = NoReps

TruncStart ==
    /\ sim.pc = "ready"
    /\ \E threshold \in TruncThresholds :
          /\ sim' = anneal_start(sim, threshold)
          /\ twin' = anneal_start(twin, threshold)
    /\ UNCHANGED <<unit, reps>>

TruncStep ==
    /\ sim.pc = "block"
    /\ twin.pc = "block"
    /\ \E x1 \in Draws, x2 \in Draws, x3 \in Draws :
          /\ sim' = mc_block_step(sim, <<x1, x2, x3>>)
          /\ twin' = mc_block_step(twin, <<x1, x2, x3>>)
    /\ UNCHANGED <<unit, reps>>

TruncCool ==
    /\ sim.pc = "cool"
    /\ twin.pc = "cool"
    /\ sim' = anneal_cool(sim)
    /\ twin' = anneal_cool_truncated(twin)
    /\ UNCHANGED <<unit, reps>>

NextTrunc == TruncStart \/ TruncStep \/ TruncCool

SpecTrunc == InitTrunc /\ [][NextTrunc]_vars

\* ------------------------- anneal at the smallest temperatures (SpecCool)
\* The loop of anneal for temperatures among the smallest positive floats.
\* These floats are the multiples k * 2^-1074 of the smallest one, and the
\* temperatures of this specification are written as that k: Ti, Tf and T
\* count units of 2^-1074.  unit is the frame of the anneal call with the
\* engine's lowE and histories.  What a block does to the System is left
\* out; of its result only lowE matters to the loop, and lowE after a block
\* is an input: it stays, or it is lower.

\* T * reduce at line 229 for T = k * 2^-1074: the product is rounded to the
\* nearest multiple of 2^-1074, a tie to the even one
cool_subnormal(T, reduce) == <<RoundHalfEven(T[1] * reduce[1], reduce[2]), 1>>

\* anneal after mc_block returns, for these temperatures
anneal_cool_subnormal(s) ==
    LET T2 == cool_subnormal(s.T, s.reduce)
        c == check_early_stop(s, s.iblock, T2, s.nstop, s.threshold)
        s2 == [s EXCEPT !.T = T2, !.Thistory = c.Thistory,
                        !.Eblockhistory = c.Eblockhistory,
                        !.stopanneal = c.stopanneal]
    IN IF c.stopanneal = "IndexError" THEN [s2 EXCEPT !.pc = "raised"]
       ELSE IF c.stopanneal = "True" THEN [s2 EXCEPT !.pc = "done", !.how = "early"]
       ELSE loop_head(s2)

\* temperatures in units of 2^-1074
SubnormalTemperatures == 1..4

\* thresholds of the early stop, the default and one that never lets it fire
CoolThresholds == {0, -1}

InitCool ==
    /\ \E Ti \in SubnormalTemperatures, Tf \in SubnormalTemperatures,
          r \in Reduces, ns \in 1..MaxStop :
          unit = [op |-> "anneal"] @@ AnnealingSchedule(Ti, Tf, r, 1, ns)
                 @@ [lowE |-> InitLowE, Thistory |-> <<>>, Eblockhistory |-> <<>>]
                 @@ [Frame EXCEPT !.pc = "ready"]
    /\ sim = NoTwin
    /\ twin = NoTwin
    /\ reps = NoReps

\* anneal, lines 207-224, with a System of size 1
CoolStart ==
    /\ unit.pc = "ready"
    /\ \E threshold \in CoolThresholds :
          unit' = loop_head([unit EXCEPT !.threshold = threshold, !.nsteps = 1,
                                         !.T = <<unit.Ti, 1>>])
    /\ UNCHANGED <<sim, twin, reps>>

\* mc_block, line 228: the first step of a run always lowers lowE from its
\* initial value (line 186), later blocks lower it or leave it
CoolBlock ==
    /\ unit.pc = "block"
    /\ \E lower \in BOOLEAN :
          unit' = [unit EXCEPT !.lowE = IF unit.lowE = InitLowE THEN 0
                                        ELSE IF lower THEN @ - 1 ELSE @,
                               !.istep = 1, !.pc = "cool"]
    /\ UNCHANGED <<sim, twin, reps>>

\* anneal, lines 229-235
CoolReduce ==
    /\ unit.pc = "cool"
    /\ unit' = anneal_cool_subnormal(unit)
    /\ UNCHANGED <<sim, twin, reps>>

NextCool == CoolStart \/ CoolBlock \/ CoolReduce

SpecCool == InitCool /\ [][NextCool]_vars

\* ------------------------------------ direct calls of the engine (SpecUnit)
\* decide, choose_move called on an engine as the unit tests call them, with
\* the draw that random.random() returns during the call
UnitDEs == {-1, 0, 1, 2, 1000}

UnitTemps == {<<1, 1>>, <<1, 2>>, <<2, 1>>, <<9, 8>>}

UnitDraws == Draws \cup {<<2, 5>>, <<1, 2>>, <<3, 5>>}

\* move weights with a positive sum; the last two are weights whose table,
\* summed in floats, ends below the largest draw at a mantissa of 5 (and of
\* 53) bits and of 6 bits
UnitWeights ==
    {<<1>>, <<1, 1>>, <<1, 3>>, <<3, 1>>, <<2, 1, 1>>, <<0, 1>>, <<1, 0>>,
     <<1, 4, 1, 1>>, <<2, 9, 2, 2>>}

InitUnit ==
    /\ sim = NewSim(System(4, <<1, 1>>, 1, FALSE, TRUE),
                    AnnealingSchedule(2, 1, <<1, 2>>, 1, 1))
    /\ twin = NoTwin
    /\ unit = NoUnit
    /\ reps = NoReps

UnitDecide ==
    /\ \E dE \in UnitDEs, T \in UnitTemps, x \in UnitDraws :
          LET d == decide(dE, T, x)
          IN unit' = [NoUnit EXCEPT !.op = "decide", !.dE = dE, !.T = T, !.x = x,
                                    !.accept = d.accept, !.ndraws = d.ndraws]
    /\ UNCHANGED <<sim, twin, reps>>

UnitChooseMove ==
    /\ \E w \in UnitWeights, x \in UnitDraws :
          unit' = [NoUnit EXCEPT !.op = "choose_move", !.weights = w, !.x = x,
                                 !.imove = choose_move(cummoveprobabilities(w), x),
                                 !.ndraws = 1]
    /\ UNCHANGED <<sim, twin, reps>>

NextUnit == UnitDecide \/ UnitChooseMove

SpecUnit == InitUnit /\ [][NextUnit]_vars

\* ================================================================ claims
\* Ti * reduce^n
TempAt(m, n) == RMul(<<m.Ti, 1>>, <<Pow(m.reduce[1], n), Pow(m.reduce[2], n)>>)

\* ceil(log(Tf / Ti) / log(reduce)) for Ti > Tf and reduce < 1: the least n
\* with reduce^n <= Tf / Ti
CeilLogBound(m) ==
    CHOOSE n \in 0..MaxBlocks :
        /\ RLeq(TempAt(m, n), <<m.Tf, 1>>)
        /\ \A k \in 0..(n - 1) : ~RLeq(TempAt(m, k), <<m.Tf, 1>>)

\* floor(log(Tf / Ti) / log(reduce)) + 1: the least n with reduce^n < Tf / Ti
FloorLogBoundPlusOne(m) ==
    CHOOSE n \in 0..MaxBlocks :
        /\ RLt(TempAt(m, n), <<m.Tf, 1>>)
        /\ \A k \in 0..(n - 1) : ~RLt(TempAt(m, k), <<m.Tf, 1>>)

C3_PreviousWindow ==
    sim.stopanneal \in {"True", "False"} =>
        LET Eh == sim.Eblockhistory
            n == Len(Eh)
        IN (sim.stopanneal = "True") <=>
               \A j \in 1..sim.nstop : Abs(Eh[n] - Eh[n - j]) <= sim.threshold

\* C4: a run is never ended by early stop with iblock <= nstop, and the
\* check made after block n <= nstop returns None
C4_NoStopInsideWindow ==
    /\ sim.how = "early" => sim.iblock > sim.nstop
    /\ (Len(sim.Eblockhistory) >= 1 /\ Len(sim.Eblockhistory) <= sim.nstop) =>
          sim.stopanneal = "None"
    /\ (sim.pc = "done" /\ sim.iblock <= sim.nstop) => sim.how = "schedule"

\* an early stop at the first block that allows it
C4_Witness ==
    sim.pc = "done" /\ sim.how = "early" /\ sim.iblock = sim.nstop + 1

\* C5: decide accepts every dE <= 0 without drawing; for dE > 0 it draws once
\* and accepts iff the draw is <= exp(-dE/T); for dE = 1, T = 1 the threshold
\* is exp(-1) = 0.3679 (0.3 accepted, 0.4 rejected); with the threshold
\* underflowed to 0 only the draw 0 is accepted
C5_Metropolis ==
    unit.op = "decide" =>
        /\ unit.dE <= 0 => (unit.accept /\ unit.ndraws = 0)
        /\ unit.dE > 0 =>
              /\ unit.ndraws = 1
              /\ unit.accept <=> RLeq(unit.x, ExpNeg(unit.dE, unit.T))
        /\ (unit.dE = 1 /\ unit.T = <<1, 1>>) =>
              (unit.accept <=> RLeq(unit.x, <<3679, 10000>>))
        /\ (unit.dE = 1000 /\ RLeq(unit.T, <<1, 1>>)) =>
              (unit.accept <=> unit.x = <<0, 1>>)

\* decide(1, 1) with the draw 0.3
C5_Witness ==
    /\ unit.op = "decide" /\ unit.dE = 1 /\ unit.T = <<1, 1>>
    /\ unit.x = <<3, 10>> /\ unit.accept

\* C6 as stated: for a table built from weights with a positive sum and every
\* draw, choose_move returns a valid index, the first whose cumulative entry
\* is >= the draw
C6_FirstEntryAtLeastDraw ==
    unit.op = "choose_move" =>
        LET cum == cummoveprobabilities(unit.weights)
        IN /\ unit.imove \in 0..(Len(cum) - 1)
           /\ RLeq(unit.x, cum[unit.imove + 1])
           /\ \A j \in 1..unit.imove : RLt(cum[j], unit.x)

\* what both engines show of a run: position in anneal, configuration,
\* snapshot, energies, temperature, histories, and the last step's move,
\* energy change, decision and number of draws
Observable(s) ==
    <<s.pc, s.how, s.system.pos, s.system.saved_state, s.Enew, s.lowE, s.T,
      s.iblock, s.istep, s.Thistory, s.Eblockhistory, s.stopanneal,
      s.step.imove, s.step.dE, s.step.accept, s.step.ndraws>>

\* C7: fed the same draws from the same start, the engine that recomputes the
\* energy and the engine that uses the delta function make the same choices
\* and decisions and have the same configuration, energy and lowE after every
\* step
C7_SameOutcome == Observable(sim) = Observable(twin)

\* both engines finished after an uphill move was accepted
C7_Witness ==
    /\ sim.pc = "done" /\ twin.pc = "done" /\ sim.iblock >= 2
    /\ ~sim.system.use_dE /\ twin.system.use_dE
    /\ sim.lowE < sim.Enew /\ sim.system.pos # 4

\* the number of calls of a method in a log
RECURSIVE Calls(_, _)
Calls(log, name) ==
    IF log = <<>> THEN 0
    ELSE (IF Head(log) = name THEN 1 ELSE 0) + Calls(Tail(log), name)

\* C8: a step with the delta function decides on the unchanged configuration
\* with dE the System's delta; accepted, it calls make_move once and returns
\* the previous energy plus dE; rejected, it calls neither make_move nor
\* unmake_move and leaves configuration and energy as they were
C8_DeltaStep ==
    [][(sim.pc = "block" /\ sim.system.use_dE /\ sim'.pc # "raised") =>
          LET st == sim'.step
              log == sim'.system.log
              pos == sim.system.pos
          IN /\ st.posAtDecide = pos
             /\ st.dE = Landscape[pos + sim'.system.dx] - Landscape[pos]
             /\ Calls(log, "trial_move") = 1
             /\ Calls(log, "unmake_move") = 0
             /\ st.accept =>
                   /\ Calls(log, "make_move") = 1
                   /\ sim'.system.pos = pos + sim'.system.dx
                   /\ sim'.Enew = sim.Enew + st.dE
             /\ ~st.accept =>
                   /\ Calls(log, "make_move") = 0
                   /\ sim'.system.pos = pos
                   /\ sim'.Enew = sim.Enew]_vars

\* a delta-function step that accepted an uphill move
C8_Witness ==
    /\ sim.system.use_dE /\ sim.step.imove # None /\ sim.step.accept
    /\ sim.step.dE > 0 /\ Calls(sim.system.log, "make_move") = 1

\* C9: a step that recomputes the energy makes the move before the decision
\* and takes dE as the recomputed energy minus the previous one; accepted, the
\* move stays and the recomputed energy is returned; rejected, unmake_move is
\* called once and the previous energy is returned
C9_RecomputeStep ==
    [][(sim.pc = "block" /\ ~sim.system.use_dE /\ sim'.pc # "raised") =>
          LET st == sim'.step
              log == sim'.system.log
              pos == sim.system.pos
              applied == pos + sim'.system.dx
          IN /\ st.posAtDecide = applied
             /\ st.dE = Landscape[applied] - sim.Enew
             /\ Calls(log, "trial_move") = 1
             /\ Calls(log, "make_move") = 1
             /\ st.accept =>
                   /\ Calls(log, "unmake_move") = 0
                   /\ sim'.system.pos = applied
                   /\ sim'.Enew = Landscape[applied]
             /\ ~st.accept =>
                   /\ Calls(log, "unmake_move") = 1
                   /\ log[3] = "unmake_move"
                   /\ sim'.system.pos = pos
                   /\ sim'.Enew = sim.Enew]_vars

\* a recomputing step that rejected a move and undid it
C9_Witness ==
    /\ ~sim.system.use_dE /\ sim.step.imove # None /\ ~sim.step.accept
    /\ sim.step.dE > 0 /\ sim.step.posAtDecide # sim.system.pos
    /\ Calls(sim.system.log, "unmake_move") = 1

\* C10: in mc_block a step replaces lowE by its energy iff that energy is
\* strictly below lowE, and save_state is called in exactly those steps; three
\* accepted steps of -1 from energy 1 with lowE 1 end with energy -2 and lowE
\* -2, three accepted steps of +1 leave lowE at 1
C10_LowTracking ==
    /\ []((unit.op = "mc_block" /\ unit.Enew = 1 /\ unit.lowE = 1 /\ sim.istep = 3) =>
             /\ sim.Enew = -2 => sim.lowE = -2
             /\ sim.Enew = 4 => sim.lowE = 1)
    /\ [][(sim.pc = "block" /\ sim'.pc # "raised") =>
             LET better == sim'.Enew < sim.lowE
             IN /\ sim'.lowE = IF better THEN sim'.Enew ELSE sim.lowE
                /\ Calls(sim'.system.log, "save_state") = IF better THEN 1 ELSE 0
                /\ sim.system.hasSave =>
                      sim'.system.saved_state =
                          IF better THEN sim'.system.pos
                          ELSE sim.system.saved_state]_vars

\* three accepted steps of -1 from energy 1 and lowE 1
C10_Witness ==
    /\ unit.op = "mc_block" /\ unit.Enew = 1 /\ unit.lowE = 1
    /\ sim.istep = 3 /\ sim.Enew = -2 /\ sim.lowE = -2
    /\ Calls(sim.system.log, "save_state") = 1

\* C11: every block of anneal is size * ncycles consecutive mc_steps, all at
\* the temperature the block was entered with, and after b completed blocks
\* b * size * ncycles steps have been made; with size 1 and ncycles 1, three
\* blocks of accepted steps of -1 from energy 1 give lowE = -2
C11_BlockLength ==
    /\ [](LET n == sim.size * sim.ncycles
          IN /\ sim.pc = "block" =>
                   /\ sim.istep < n
                   /\ sim.nmcsteps = (sim.iblock - 1) * n + sim.istep
             /\ sim.pc = "cool" =>
                   /\ sim.istep = n
                   /\ sim.nmcsteps = sim.iblock * n
             /\ sim.pc = "done" => sim.nmcsteps = sim.iblock * n
             /\ (sim.pc = "done" /\ n = 1 /\ sim.iblock = 3 /\ sim.Enew = -2) =>
                   sim.lowE = -2)
    /\ [][(sim.pc = "block" /\ sim'.pc # "raised") =>
             /\ Len(sim.Tblock) = sim.iblock
             /\ sim.T = sim.Tblock[sim.iblock]
             /\ sim'.T = sim.T
             /\ sim'.iblock = sim.iblock
             /\ sim'.nmcsteps = sim.nmcsteps + 1]_vars

\* two blocks of two steps each were completed and a third block was entered
C11_Witness ==
    /\ sim.pc = "block" /\ sim.iblock = 3 /\ sim.size = 2 /\ sim.ncycles = 1
    /\ sim.nmcsteps = 4 /\ sim.istep = 0

\* C12: what anneal returns is the engine's System with the configuration
\* and the energy the last executed step left (the System's constants are
\* never changed, and nothing after the last step moves it, in particular it
\* is not restored to the snapshot); the witness shows a returned
\* configuration whose energy is above lowE
C12_ReturnsFinalState ==
    /\ [](sim.pc = "done" =>
             /\ anneal_result(sim).pos \in 1..Len(Landscape)
             /\ get_energy(anneal_result(sim)) = sim.Enew)
    /\ [][/\ sim'.system.weights = sim.system.weights
          /\ sim'.system.size = sim.system.size
          /\ sim'.system.use_dE = sim.system.use_dE
          /\ sim'.system.hasSave = sim.system.hasSave
          /\ sim.pc \in {"ready", "cool"} =>
                anneal_result(sim').pos = sim.system.pos
          /\ (sim.pc = "block" /\ sim'.pc # "raised") =>
                anneal_result(sim').pos =
                    IF sim'.step.accept THEN sim.system.pos + sim'.system.dx
                    ELSE sim.system.pos]_vars

\* anneal has returned a System that has a snapshot of a lower energy than
\* its configuration
C12_Witness ==
    /\ sim.pc = "done" /\ sim.nmcsteps > 0 /\ sim.system.hasSave
    /\ get_energy(anneal_result(sim)) > sim.lowE
    /\ anneal_result(sim).saved_state # anneal_result(sim).pos
    /\ Landscape[anneal_result(sim).saved_state] = sim.lowE

\* C13 as stated: the constructor fails on a System whose move list is empty
C13_EmptyMovesFail ==
    (sim.pc # "new" /\ sim.system.weights = <<>>) => sim.pc = "failed"

\* C14 as stated: the constructor fails on a System whose size is <= 0
C14_BadSizeFail ==
    (sim.pc # "new" /\ sim.system.size <= 0) => sim.pc = "failed"

\* C15: the constructor fails on a System that has moves whose weights are
\* all zero, and no engine (no cumulative table) comes out of it
C15_ZeroWeightsFail ==
    (/\ sim.pc # "new"
     /\ sim.system.weights # <<>>
     /\ \A i \in 1..Len(sim.system.weights) : sim.system.weights[i] = 0) =>
        /\ sim.pc = "failed"
        /\ sim.error = "ZeroDivisionError"
        /\ "cum" \notin DOMAIN sim

\* the constructor was called with two moves of weight zero and failed
C15_Witness ==
    /\ sim.pc = "failed" /\ sim.system.weights = <<0, 0>> /\ sim.system.size = 1

\* the course of a run: position in anneal, configuration, energies,
\* temperature, histories, the last step and the number of steps
Trajectory(s) ==
    <<s.pc, s.how, s.system.pos, s.Enew, s.lowE, s.T, s.iblock, s.istep,
      s.Thistory, s.Eblockhistory, s.stopanneal, s.step, s.nmcsteps, s.Tblock>>

\* C16: on a System without save_state anneal never raises and, fed the same
\* draws, takes the same course (moves, decisions, energies, lowE, histories)
\* as on the same System with save_state; only the snapshot is missing
C16_NoSaveSameCourse ==
    /\ twin.pc # "raised"
    /\ Trajectory(twin) = Trajectory(sim)
    /\ twin.system.saved_state = NoState

\* both runs have finished after lowering lowE, one with a snapshot and one
\* without
C16_Witness ==
    /\ sim.pc = "done" /\ twin.pc = "done" /\ sim.iblock >= 2
    /\ sim.system.hasSave /\ ~twin.system.hasSave
    /\ sim.lowE < 1 /\ sim.system.saved_state # NoState
    /\ twin.system.saved_state = NoState

\* C17: when no replicate fails, a run that has returned hands its caller
\* exactly np entries, entry i being the System of replicate i with the seed
\* of replicate i, whatever the order the workers finished in, and every
\* replicate had finished by then
C17_AllCollectedInOrder ==
    (reps.pc = "returned" /\ reps.fails = {}) =>
        /\ Len(run_result(reps)) = reps.np
        /\ \A i \in 1..reps.np :
              /\ run_result(reps)[i].replicate = i - 1
              /\ run_result(reps)[i].system = "finished"
              /\ run_result(reps)[i].ranseed = reps.ranseeds[i]
              /\ reps.task[i] = "ok"

\* three replicates finished in the reverse of their order and run returned
C17_Witness ==
    /\ reps.pc = "returned" /\ reps.fails = {} /\ reps.np = 3
    /\ reps.order = <<3, 2, 1>> /\ Len(run_result(reps)) = 3

\* C18 as stated: when exactly one replicate fails, a run that has ended has
\* handed its caller np outcomes, with the System of every other replicate
C18_SiblingsDelivered ==
    (reps.pc \in {"returned", "raised"} /\ Cardinality(reps.fails) = 1) =>
        /\ Len(run_result(reps)) = reps.np
        /\ \A i \in (1..reps.np) \ reps.fails :
              /\ run_result(reps)[i].replicate = i - 1
              /\ run_result(reps)[i].system = "finished"

C20_SeedsDistinct ==
    reps.pc \in {"collect", "returned", "raised"} =>
        \A i \in 1..reps.np : \A j \in 1..reps.np :
            i # j => reps.ranseeds[i] # reps.ranseeds[j]

\* what the engine itself produces in a run of anneal: its fields, the
\* configuration of the System it returns, and what decides the messages it
\* prints (the banners, and the early-stop message when how = "early")
EngineReport(s) ==
    <<s.pc, s.how, s.stopanneal, s.lowE, s.Enew, s.Thistory, s.Eblockhistory,
      anneal_result(s).pos>>

\* C21 as stated: after anneal on a System without save_state the engine has
\* produced something that differs from what it produces on the same System
\* with save_state
C21_AbsenceReported ==
    (/\ sim.pc = "done" /\ twin.pc = "done"
     /\ sim.system.hasSave /\ ~twin.system.hasSave) =>
        EngineReport(twin) # EngineReport(sim)

C23_LowCoversStart ==
    (sim.pc = "done" /\ unit.op = "anneal" /\ sim.nmcsteps >= 1) =>
        /\ sim.lowE = unit.minE
        /\ sim.lowE <= unit.E0
        /\ Landscape[sim.system.saved_state] = unit.minE

\* the calls of Move methods in a log, in their order
MoveCalls(log) == SelectSeq(log, LAMBDA c : c # "save_state")

\* C24: in every mc_step, with either strategy, the Move calls are
\* trial_move alone, trial_move then make_move, or trial_move, make_move and
\* unmake_move in this order; after an accepted step the move is made and not
\* unmade, after a rejected step the configuration is the one before the step
C24_MoveProtocol ==
    [][(sim.pc = "block" /\ sim'.pc # "raised") =>
          LET calls == MoveCalls(sim'.system.log)
          IN /\ calls \in {<<"trial_move">>,
                           <<"trial_move", "make_move">>,
                           <<"trial_move", "make_move", "unmake_move">>}
             /\ sim'.step.accept =>
                   /\ Calls(calls, "make_move") = 1
                   /\ Calls(calls, "unmake_move") = 0
                   /\ sim'.system.pos = sim.system.pos + sim'.system.dx
             /\ ~sim'.step.accept =>
                   /\ calls # <<"trial_move", "make_move">>
                   /\ sim'.system.pos = sim.system.pos]_vars

\* a step that made a move away from the start, then unmade it
C24_Witness ==
    /\ sim.pc \in {"block", "cool"} /\ sim.nmcsteps >= 1 /\ ~sim.step.accept
    /\ MoveCalls(sim.system.log) = <<"trial_move", "make_move", "unmake_move">>
    /\ sim.system.dx # 0 /\ sim.system.pos # 4

\* C25 as stated: the k-th temperature of the history is the temperature the
\* k-th block was run at, Ti * reduce^(k-1), and the k-th energy is lowE at
\* the end of that block
C25_HistoryHoldsBlockT ==
    /\ Len(sim.Thistory) = Len(sim.Eblockhistory)
    /\ \A k \in 1..Len(sim.Thistory) :
          /\ sim.Thistory[k] = sim.Tblock[k]
          /\ sim.Thistory[k] = TempAt(sim, k - 1)

\* C26: once anneal has computed the starting energy, and after every
\* mc_step, the tracked energy Enew is the energy of the System's current
\* configuration, with either strategy
C26_TrackedIsEnergy ==
    sim.pc \in {"block", "cool", "done"} => sim.Enew = get_energy(sim.system)

\* a delta-function run has accepted a descent and then an ascent
C26_Witness ==
    /\ sim.pc \in {"block", "cool", "done"} /\ sim.system.use_dE
    /\ sim.nmcsteps >= 2 /\ sim.step.accept /\ sim.step.dE > 0
    /\ sim.lowE < sim.Enew /\ sim.Enew = get_energy(sim.system)

\* C27: each replicate works on a System object of its own, which is not
\* the template; a step of one replicate leaves the engine and the System of
\* the other as they were; the template and the schedule keep, up to the
\* return of run, the contents they had when Replicates received them
C27_ReplicatesIsolated ==
    /\ [](/\ unit.heap[0] = unit.before.template
          /\ unit.schedule = unit.before.schedule
          /\ reps.pc # "idle" =>
                /\ unit.owner[1] # unit.owner[2]
                /\ unit.owner[1] # 0 /\ unit.owner[2] # 0
                /\ sim.system = unit.heap[unit.owner[1]]
                /\ twin.system = unit.heap[unit.owner[2]])
    /\ [][reps.pc # "idle" =>
             /\ sim' # sim =>
                   /\ twin' = twin
                   /\ unit'.heap[unit.owner[2]] = unit.heap[unit.owner[2]]
             /\ twin' # twin =>
                   /\ sim' = sim
                   /\ unit'.heap[unit.owner[1]] = unit.heap[unit.owner[1]]]_vars

\* run has returned after the two replicates moved their Systems to
\* different configurations, the second finishing first
C27_Witness ==
    /\ reps.pc = "returned" /\ reps.order = <<2, 1>>
    /\ sim.system.pos # 4 /\ twin.system.pos # 4
    /\ sim.system.pos # twin.system.pos
    /\ unit.heap[0].pos = 4

C29_NoBlockRepeatsTemperature ==
    unit.op = "anneal" =>
        \A i \in 1..Len(unit.Tblock), j \in 1..Len(unit.Tblock) :
            i < j => RLt(unit.Tblock[j], unit.Tblock[i])

\* C30 as stated: when some move has a positive weight, choose_move does not
\* return a move whose weight is 0
C30_ZeroWeightNeverChosen ==
    (/\ unit.op = "choose_move"
     /\ unit.imove # None
     /\ \E k \in 1..Len(unit.weights) : unit.weights[k] > 0)
        => unit.weights[unit.imove + 1] > 0

\* C31: after every block the engine that keeps only the last nstop + 1
\* entries of its histories has made the same early-stop decision as the
\* engine that keeps them all, and the two are at the same point of the same
\* run; the bounded history is the tail of the full one
C31_SameStopDecision ==
    /\ twin.stopanneal = sim.stopanneal
    /\ twin.pc = sim.pc /\ twin.how = sim.how
    /\ twin.iblock = sim.iblock /\ twin.T = sim.T
    /\ twin.lowE = sim.lowE /\ twin.system = sim.system
    /\ Len(twin.Eblockhistory) <= sim.nstop + 1
    /\ twin.Eblockhistory = last_entries(sim.Eblockhistory, sim.nstop + 1)
    /\ twin.Thistory = last_entries(sim.Thistory, sim.nstop + 1)

\* the early stop fired on a history from which entries had been dropped,
\* the best energy having changed during the run
C31_Witness ==
    /\ sim.how = "early" /\ sim.threshold = 0
    /\ Len(sim.Eblockhistory) > sim.nstop + 1
    /\ Len(twin.Eblockhistory) = sim.nstop + 1
    /\ sim.Eblockhistory[1] # sim.lowE

\* C32 as stated, on the states of an anneal: once a step has been made lowE
\* is at most the tracked energy, and Eblockhistory is non-increasing with
\* every entry an energy of the System (one of the energies its
\* configurations have)
C32_LowIsSystemEnergy ==
    /\ sim.nmcsteps >= 1 => sim.lowE <= sim.Enew
    /\ \A i \in 1..Len(sim.Eblockhistory) :
          /\ i > 1 => sim.Eblockhistory[i] <= sim.Eblockhistory[i - 1]
          /\ \E p \in 1..Len(Landscape) :
                sim.Eblockhistory[i] = sim.system.base + Landscape[p]

====
